---- MODULE Spec2Model ----
(***************************************************************************)
(* A model of content.js: the VideoSpeedController content script.  The    *)
(* controller keeps a list of tracked <video> elements (this.videos) and a *)
(* map from each of them to an overlay (this.overlays); scanForVideos      *)
(* reconciles both against the document, at construction and on every      *)
(* MutationObserver callback.  Overlay buttons and a document keydown      *)
(* listener step the element's playbackRate along a fixed speed ladder.    *)
(*                                                                         *)
(* Handlers run to completion, so each handler is one action.  Rates are   *)
(* integers in hundredths (1x = 100).  Elements are 1..NumVideos, overlays *)
(* are numbered in creation order (an overlay object outlives its removal  *)
(* from the document, because the listeners that close over it stay).      *)
(***************************************************************************)
EXTENDS Integers, Sequences, FiniteSets, TLC

\* ------------------------------------------------------------- bounds
NumVideos == 2
MaxDepth == 2
MaxOverlays == 3
MaxNotes == 2
MaxPageRate == 14
MaxTimers == 2

\* ---------------------------------------------------------- constants
\* The result of Array.prototype.find / Map.prototype.get on a miss, and
\* document.activeElement when no video holds focus.
Undefined == 0
\* this.speeds (hundredths).
Ladder == <<25, 50, 75, 100, 125, 150, 175, 200, 250, 300>>
\* The offset added to rect.top and rect.left by positionOverlay.
Inset == 10

Videos == 1..NumVideos
Depths == 1..MaxDepth
\* Rates the page itself may give an element: 0, 0.25, ... in quarter steps,
\* which covers ladder values, values between ladder steps (2.25, 2.75,
\* 3.25) and values above the ladder maximum.
PageRates == {25 * k : k \in 0..MaxPageRate}
Keys == {"-", "_", "+", "=", "0", "k"}

ZeroRect == [left |-> 0, top |-> 0, width |-> 0, height |-> 0]
DefaultRect == [left |-> 40, top |-> 60, width |-> 640, height |-> 360]
\* Layout boxes the page may give a rooted element: the default one, one
\* scrolled partly out of the viewport, one collapsed to zero width and the
\* all-zero box.
Rects ==
  {DefaultRect,
   [left |-> -20, top |-> 300, width |-> 640, height |-> 360],
   [left |-> 40, top |-> 60, width |-> 0, height |-> 360],
   ZeroRect}

VARIABLES
  doc,              \* the <video> elements rooted in the document, in document order
  depth,            \* nesting depth of each rooted element below document.body (0: not rooted)
  rate,             \* video.playbackRate
  paused,           \* video.paused
  focus,            \* document.activeElement when it is a video, else Undefined
  rect,             \* layout box of each element while rooted
  body,             \* overlays that are children of document.body
  notes,            \* speed-notification elements in document.body (each has a removal timer)
  observer,         \* the MutationObserver is observing document.body
  keyListener,      \* the document keydown listener is registered
  mutationPending,  \* the observer has queued records, its callback is due
  videos,           \* this.videos
  overlays,         \* this.overlays
  surfaces,         \* every overlay element created so far: its label and style
  closures,         \* per overlay: the video it closes over and its hide timers
  resizeListeners,  \* overlays with a window "resize" listener
  scrollListeners,  \* overlays with a window "scroll" listener
  hoverListeners,   \* overlays whose showOverlay/hideOverlay are registered on their video
  sizeObservers,    \* number of ResizeObservers observing each element
  last              \* the handler that ran last and what its event object recorded

page == <<doc, depth, rate, paused, focus, rect>>
table == <<videos, overlays>>
registrations == <<resizeListeners, scrollListeners, hoverListeners, sizeObservers>>
vars == <<doc, depth, rate, paused, focus, rect, body, notes, observer, keyListener,
          mutationPending, videos, overlays, surfaces, closures, resizeListeners,
          scrollListeners, hoverListeners, sizeObservers, last>>

\* ------------------------------------------------------------ helpers
Range(s) == {s[i] : i \in 1..Len(s)}
Min(S) == CHOOSE x \in S : \A y \in S : x <= y
Max(a, b) == IF a >= b THEN a ELSE b
NoDup(s) == \A i, j \in 1..Len(s) : s[i] = s[j] => i = j
InsertAt(s, i, v) == SubSeq(s, 1, i - 1) \o <<v>> \o SubSeq(s, i, Len(s))
Without(s, v) == SelectSeq(s, LAMBDA x : x # v)
Restrict(f, S) == [x \in S |-> f[x]]

\* Array.prototype.includes
Includes(list, v) == \E i \in 1..Len(list) : list[i] = v
\* Array.prototype.findIndex: the 0-based index of the first hit, or -1.
\* The callback is given as a function from elements to BOOLEAN.
FindIndex(list, test) ==
  LET hits == {i \in 1..Len(list) : test[list[i]]}
  IN  IF hits = {} THEN -1 ELSE Min(hits) - 1
\* Array.prototype.find
Find(list, test) ==
  LET i == FindIndex(list, test)
  IN  IF i = -1 THEN Undefined ELSE list[i + 1]

\* The event record of a handler that recorded nothing.
NoEvent ==
  [handler |-> "none", op |-> "", key |-> "", target |-> Undefined, before |-> 0,
   prevented |-> FALSE, stopped |-> FALSE, fault |-> FALSE, repeat |-> FALSE]
Ev(h) == [NoEvent EXCEPT !.handler = h]

\* ----------------------------------------------------- the speed ladder
\* Number.prototype.toFixed(2) followed by "x": the integer part, the two
\* decimals, the unit.
ToFixed2(r) == [int |-> r \div 100, frac |-> r % 100, unit |-> "x"]

\* decreaseSpeed: the rate it hands to setSpeed.
StepDown(currentSpeed) ==
  LET currentIndex == FindIndex(Ladder, [speed \in Range(Ladder) |-> speed >= currentSpeed])
      newIndex == Max(0, currentIndex - 1)
  IN  Ladder[newIndex + 1]

\* increaseSpeed with the comparison of decreaseSpeed (>= for >).
StepUpInclusive(currentSpeed) ==
  LET currentIndex == FindIndex(Ladder, [speed \in Range(Ladder) |-> speed >= currentSpeed])
      newIndex == IF currentIndex = -1 THEN Len(Ladder) - 1 ELSE currentIndex
  IN  Ladder[newIndex + 1]

\* increaseSpeed: the rate it hands to setSpeed.
StepUp(currentSpeed) ==
  LET currentIndex == FindIndex(Ladder, [speed \in Range(Ladder) |-> speed > currentSpeed])
      newIndex == IF currentIndex = -1 THEN Len(Ladder) - 1 ELSE currentIndex
  IN  Ladder[newIndex + 1]

\* resetSpeed: the rate it hands to setSpeed.
ResetRate == Ladder[4]

NewRate(op, c) ==
  CASE op = "decrease" -> StepDown(c)
    [] op = "increase" -> StepUp(c)
    [] op = "reset" -> ResetRate

\* ----------------------------------------------------------- document
\* A query that finds only the videos directly below document.body.
QuerySelectorAllChildren == SelectSeq(doc, LAMBDA v : depth[v] = 1)

\* document.querySelectorAll("video"): the rooted elements in document order.
QuerySelectorAll == doc
\* document.contains(video)
DocumentContains(v) == Includes(doc, v)
\* video.getBoundingClientRect(): an element that is not rendered has an
\* all-zero box.
BoundingClientRect(v) == IF DocumentContains(v) THEN rect[v] ELSE ZeroRect

\* The options without subtree.
ObserverOptionsShallow == [childList |-> TRUE, subtree |-> FALSE]

\* The options observer.observe(document.body, ...) is given.
ObserverOptions == [childList |-> TRUE, subtree |-> TRUE]

\* Whether a child-list change d levels below document.body queues a record.
Observed(d) ==
  observer /\ ObserverOptions.childList /\ (ObserverOptions.subtree \/ d = 1)

\* ------------------------------------------------------ initial state
\* The page as the content script finds it, with document order d, depths
\* dp and playback rates r: nothing tracked, nothing registered.
InitPage(d, dp, r) ==
  /\ doc = d
  /\ depth = dp
  /\ rate = r
  /\ paused = [v \in Videos |-> TRUE]
  /\ focus = Undefined
  /\ rect = [v \in Videos |-> DefaultRect]
  /\ body = {}
  /\ notes = 0
  /\ observer = FALSE
  /\ keyListener = FALSE
  /\ mutationPending = FALSE
  /\ videos = <<>>
  /\ overlays = <<>>
  /\ surfaces = <<>>
  /\ closures = <<>>
  /\ resizeListeners = {}
  /\ scrollListeners = {}
  /\ hoverListeners = {}
  /\ sizeObservers = [v \in Videos |-> 0]
  /\ last = NoEvent

\* The document orders of the subsets of Videos.
Documents == {s \in UNION {[1..n -> Videos] : n \in 0..NumVideos} : NoDup(s)}
\* The depth assignments that fit document order d.
DepthsOf(d) ==
  {dp \in [Videos -> 0..MaxDepth] : \A v \in Videos : dp[v] > 0 <=> Includes(d, v)}
\* Every rooted video directly below document.body.
TopLevel(d) == [v \in Videos |-> IF Includes(d, v) THEN 1 ELSE 0]

\* Any set of rooted videos in any order at any depth, all at the default
\* rate.
Init ==
  \E d \in Documents : \E dp \in DepthsOf(d) :
    InitPage(d, dp, [v \in Videos |-> ResetRate])

\* --------------------------------------------------- overlay lifecycle
\* positionOverlay with || for && in the display test.
PositionOverlayEitherSide(style, box) ==
  [style EXCEPT !.position = "fixed",
                !.top = box.top + Inset,
                !.left = box.left + Inset,
                !.zIndex = "10000",
                !.display = IF box.width > 0 \/ box.height > 0 THEN "block" ELSE "none"]

\* positionOverlay: the style it leaves on an overlay for a bounding box.
PositionOverlay(style, box) ==
  [style EXCEPT !.position = "fixed",
                !.top = box.top + Inset,
                !.left = box.left + Inset,
                !.zIndex = "10000",
                !.display = IF box.width > 0 /\ box.height > 0 THEN "block" ELSE "none"]

\* createOverlay: the element it builds for a video, labelled with the
\* current rate and positioned once.  No opacity is set at creation.
NewSurface(v) ==
  PositionOverlay(
    [label |-> ToFixed2(rate[v]), position |-> "", top |-> 0, left |-> 0,
     zIndex |-> "", display |-> "", opacity |-> ""],
    BoundingClientRect(v))

\* setupOverlayEvents: what the listeners of a new overlay close over; the
\* trailing hideOverlay() call leaves one hide timer pending, held in
\* hideTimeout.  timers counts the pending hide timers of the overlay,
\* latest tells whether the timer hideTimeout refers to is still pending;
\* hover is history: the last of showOverlay/hideOverlay to run was
\* showOverlay.
NewClosure(v) == [video |-> v, timers |-> 1, latest |-> TRUE, hover |-> FALSE]

\* The first loop without its includes test.
NewlySeenNoCheck(list, tracked) == list

\* scanForVideos, first loop: the elements of list that get pushed onto the
\* tracked list (and an overlay), in order.
RECURSIVE NewlySeen(_, _)
NewlySeen(list, tracked) ==
  IF list = <<>> THEN <<>>
  ELSE LET video == Head(list)
       IN  IF ~Includes(tracked, video)
           THEN <<video>> \o NewlySeen(Tail(list), Append(tracked, video))
           ELSE NewlySeen(Tail(list), tracked)

\* removeOverlay without this.overlays.delete.
RemoveOverlayKeepEntry(st, video) ==
  IF video \in DOMAIN st.overlays
  THEN [st EXCEPT !.body = @ \ {st.overlays[video]}]
  ELSE st

\* removeOverlay without overlay.remove().
RemoveOverlayKeepElement(st, video) ==
  IF video \in DOMAIN st.overlays
  THEN [st EXCEPT !.overlays = Restrict(@, DOMAIN @ \ {video})]
  ELSE st

\* removeOverlay without the if (overlay) test: overlay.remove() on
\* undefined throws.
RemoveOverlayUnguarded(st, video) ==
  IF video \in DOMAIN st.overlays
  THEN [st EXCEPT !.body = @ \ {st.overlays[video]},
                  !.overlays = Restrict(@, DOMAIN @ \ {video})]
  ELSE [st EXCEPT !.fault = TRUE]

\* removeOverlay on the state st = [videos, overlays, body, fault]; fault
\* tells whether an exception was thrown.
RemoveOverlay(st, video) ==
  IF video \in DOMAIN st.overlays
  THEN [st EXCEPT !.body = @ \ {st.overlays[video]},
                  !.overlays = Restrict(@, DOMAIN @ \ {video})]
  ELSE st

\* A filter that removes the overlay of an element out of the document but
\* keeps the element in the list.
RECURSIVE FilterTrackedKeepsElement(_, _)
FilterTrackedKeepsElement(list, st) ==
  IF list = <<>> THEN st
  ELSE LET video == Head(list)
           kept == [st EXCEPT !.videos = Append(@, video)]
       IN  IF ~DocumentContains(video)
           THEN FilterTrackedKeepsElement(Tail(list), RemoveOverlay(kept, video))
           ELSE FilterTrackedKeepsElement(Tail(list), kept)

\* scanForVideos, the filter: st.videos collects the elements kept.
RECURSIVE FilterTracked(_, _)
FilterTracked(list, st) ==
  IF list = <<>> THEN st
  ELSE LET video == Head(list)
       IN  IF ~DocumentContains(video)
           THEN FilterTracked(Tail(list), RemoveOverlay(st, video))
           ELSE FilterTracked(Tail(list), [st EXCEPT !.videos = Append(@, video)])

\* scanForVideos as a whole.  Each newly seen video gets createOverlay
\* (element, label, position, hide timer, insertion into document.body, map
\* entry, window resize and scroll listeners) and setupVideoEvents (a
\* ResizeObserver); then the filter drops what left the document.
ScanForVideos ==
  LET seen == NewlySeen(QuerySelectorAll, videos)
      pushed == videos \o seen
      base == Len(surfaces)
      fresh == (base + 1)..(base + Len(seen))
      created ==
        [videos |-> <<>>,
         overlays |-> [v \in DOMAIN overlays \cup Range(seen) |->
                         IF Includes(seen, v)
                         THEN base + CHOOSE k \in 1..Len(seen) :
                                /\ seen[k] = v
                                /\ \A j \in (k + 1)..Len(seen) : seen[j] # v
                         ELSE overlays[v]],
         body |-> body \cup fresh,
         fault |-> FALSE]
      done == FilterTracked(pushed, created)
  IN  /\ videos' = done.videos
      /\ overlays' = done.overlays
      /\ body' = done.body
      /\ surfaces' = surfaces \o [k \in 1..Len(seen) |-> NewSurface(seen[k])]
      /\ closures' = closures \o [k \in 1..Len(seen) |-> NewClosure(seen[k])]
      /\ resizeListeners' = resizeListeners \cup fresh
      /\ scrollListeners' = scrollListeners \cup fresh
      /\ hoverListeners' = hoverListeners \cup fresh
      /\ sizeObservers' = [v \in Videos |->
           sizeObservers[v] + Cardinality({k \in 1..Len(seen) : seen[k] = v})]
      /\ mutationPending' = (Observed(1) /\ (seen # <<>> \/ done.body # created.body))

\* The constructor: the initial scan, then observer.observe(document.body)
\* and the keydown listener.  The initial scan's own insertions precede the
\* observation and queue nothing.
Construct ==
  /\ ~observer
  /\ ScanForVideos
  /\ observer' = TRUE
  /\ keyListener' = TRUE
  /\ last' = Ev("constructor")
  /\ UNCHANGED <<page, notes>>

\* The MutationObserver callback: the queued records are taken and
\* scanForVideos runs; what it inserts or removes queues new records.
MutationCallback ==
  /\ observer
  /\ mutationPending
  /\ ScanForVideos
  /\ last' = [Ev("scanForVideos") EXCEPT
                !.repeat = (last.handler \in {"constructor", "scanForVideos"})]
  /\ UNCHANGED <<page, notes, observer, keyListener>>

\* A call of removeOverlay(video) by itself, for any element.
RemoveOverlayCall(video) ==
  LET st == [videos |-> videos, overlays |-> overlays, body |-> body, fault |-> FALSE]
      done == RemoveOverlay(st, video)
  IN  /\ videos' = done.videos
      /\ overlays' = done.overlays
      /\ body' = done.body
      /\ mutationPending' = (mutationPending \/ (Observed(1) /\ done.body # body))
      /\ last' = [Ev("removeOverlay") EXCEPT !.target = video, !.fault = done.fault]
      /\ UNCHANGED <<page, notes, observer, keyListener, surfaces, closures,
                     registrations>>

\* ---------------------------------------------------------- the page
\* Elements that would get an overlay at the next scan if v were rooted.
Unattached(v) == {w \in Range(doc) \cup {v} : ~Includes(videos, w)}

\* The page inserts video v at place i of the document order, d levels
\* below document.body.
InsertVideo(v, i, d) ==
  /\ ~DocumentContains(v)
  /\ Len(surfaces) + Cardinality(Unattached(v)) <= MaxOverlays
  /\ doc' = InsertAt(doc, i, v)
  /\ depth' = [depth EXCEPT ![v] = d]
  /\ mutationPending' = (mutationPending \/ Observed(d))
  /\ last' = Ev("page")
  /\ UNCHANGED <<rate, paused, focus, rect, body, notes, observer, keyListener, table,
                 surfaces, closures, registrations>>

\* The page removes video v from the document.  A media element removed
\* from its document is paused, and cannot keep the focus.
RemoveVideo(v) ==
  /\ DocumentContains(v)
  /\ doc' = Without(doc, v)
  /\ depth' = [depth EXCEPT ![v] = 0]
  /\ paused' = [paused EXCEPT ![v] = TRUE]
  /\ focus' = IF focus = v THEN Undefined ELSE focus
  /\ mutationPending' = (mutationPending \/ Observed(depth[v]))
  /\ last' = Ev("page")
  /\ UNCHANGED <<rate, rect, body, notes, observer, keyListener, table,
                 surfaces, closures, registrations>>

\* The page sets video.playbackRate itself.
PageSetRate(v, r) ==
  /\ rate[v] # r
  /\ rate' = [rate EXCEPT ![v] = r]
  /\ last' = Ev("page")
  /\ UNCHANGED <<doc, depth, paused, focus, rect, body, notes, observer, keyListener,
                 mutationPending, table, surfaces, closures, registrations>>

\* The element starts playing.
Play(v) ==
  /\ paused[v]
  /\ paused' = [paused EXCEPT ![v] = FALSE]
  /\ last' = Ev("page")
  /\ UNCHANGED <<doc, depth, rate, focus, rect, body, notes, observer, keyListener,
                 mutationPending, table, surfaces, closures, registrations>>

\* The element stops playing.
Pause(v) ==
  /\ ~paused[v]
  /\ paused' = [paused EXCEPT ![v] = TRUE]
  /\ last' = Ev("page")
  /\ UNCHANGED <<doc, depth, rate, focus, rect, body, notes, observer, keyListener,
                 mutationPending, table, surfaces, closures, registrations>>

\* A rooted element takes the input focus.
FocusVideo(v) ==
  /\ DocumentContains(v)
  /\ focus # v
  /\ focus' = v
  /\ last' = Ev("page")
  /\ UNCHANGED <<doc, depth, rate, paused, rect, body, notes, observer, keyListener,
                 mutationPending, table, surfaces, closures, registrations>>

\* The focus leaves the videos.
Blur ==
  /\ focus # Undefined
  /\ focus' = Undefined
  /\ last' = Ev("page")
  /\ UNCHANGED <<doc, depth, rate, paused, rect, body, notes, observer, keyListener,
                 mutationPending, table, surfaces, closures, registrations>>

\* ------------------------------------------------------ speed commands
\* setSpeed without the write to display.textContent.
SetSpeedNoLabel(video, speed, display) ==
  /\ rate' = [rate EXCEPT ![video] = speed]
  /\ IF display = Undefined
     THEN UNCHANGED <<notes, mutationPending>>
     ELSE /\ notes' = notes + 1
          /\ mutationPending' = (mutationPending \/ Observed(1))
  /\ UNCHANGED surfaces

\* setSpeed with showSpeedNotification: the rate is set, the label of the
\* overlay whose speed display was handed in is rewritten, a notification
\* element is appended to document.body and its removal timer started.  With
\* no display (undefined) the write to textContent throws after the rate was
\* set, and nothing else happens.
SetSpeed(video, speed, display) ==
  /\ rate' = [rate EXCEPT ![video] = speed]
  /\ IF display = Undefined
     THEN UNCHANGED <<surfaces, notes, mutationPending>>
     ELSE /\ surfaces' = [surfaces EXCEPT ![display].label = ToFixed2(speed)]
          /\ notes' = notes + 1
          /\ mutationPending' = (mutationPending \/ Observed(1))

\* A click on a button of overlay o: the listener stops the propagation and
\* runs the command against the video it closes over.
Click(o, op) ==
  /\ o \in body
  /\ notes < MaxNotes
  /\ LET video == closures[o].video
     IN  /\ SetSpeed(video, NewRate(op, rate[video]), o)
         /\ last' = [Ev("click") EXCEPT !.op = op, !.target = video,
                                        !.before = rate[video], !.stopped = TRUE]
  /\ UNCHANGED <<doc, depth, paused, focus, rect, body, observer, keyListener, table,
                 closures, registrations>>

\* A click on the speed display or on the overlay's own area: neither they
\* nor document.body have a click listener of the controller, so nothing
\* calls stopPropagation and nothing else happens.
ClickOutsideButtons(o) ==
  /\ o \in body
  /\ last' = [Ev("click") EXCEPT !.target = closures[o].video, !.stopped = FALSE]
  /\ UNCHANGED <<page, body, notes, observer, keyListener, mutationPending, table,
                 surfaces, closures, registrations>>

ClickDecrease(o) == Click(o, "decrease")
ClickIncrease(o) == Click(o, "increase")
ClickReset(o) == Click(o, "reset")

\* The removal timer of a notification fires: notification.remove().
NoteTimeout ==
  /\ notes > 0
  /\ notes' = notes - 1
  /\ mutationPending' = (mutationPending \/ Observed(1))
  /\ last' = Ev("noteTimeout")
  /\ UNCHANGED <<page, body, observer, keyListener, table, surfaces, closures,
                 registrations>>

\* An activeVideo that prefers a playing element to the focused one.
ActiveVideoPlayingFirst ==
  LET playing == Find(videos, [video \in Videos |-> ~paused[video]])
  IN  IF playing # Undefined THEN playing
      ELSE Find(videos, [video \in Videos |-> focus = video])

\* The keydown listener's activeVideo.
ActiveVideo == Find(videos, [video \in Videos |-> ~paused[video] \/ focus = video])

\* The keydown listener's switch: the command a key selects ("" for none).
KeyOp(k) ==
  CASE k \in {"-", "_"} -> "decrease"
    [] k \in {"+", "="} -> "increase"
    [] k = "0" -> "reset"
    [] OTHER -> ""

\* A switch that calls e.preventDefault() for every key.
PreventsDefaultAlways(k) == TRUE

\* Whether the switch calls e.preventDefault() for key k.
PreventsDefault(k) == KeyOp(k) # ""

\* The document keydown listener.
KeyDown(k) ==
  /\ keyListener
  /\ LET activeVideo == ActiveVideo
         op == KeyOp(k)
     IN  IF activeVideo = Undefined
         THEN /\ last' = [Ev("keydown") EXCEPT !.key = k]
              /\ UNCHANGED <<rate, surfaces, notes, mutationPending>>
         ELSE LET speedDisplay == IF activeVideo \in DOMAIN overlays
                                  THEN overlays[activeVideo] ELSE Undefined
              IN  IF op = ""
                  THEN /\ last' = [Ev("keydown") EXCEPT !.key = k, !.target = activeVideo,
                                                        !.prevented = PreventsDefault(k)]
                       /\ UNCHANGED <<rate, surfaces, notes, mutationPending>>
                  ELSE /\ notes < MaxNotes
                       /\ SetSpeed(activeVideo, NewRate(op, rate[activeVideo]), speedDisplay)
                       /\ last' = [Ev("keydown") EXCEPT
                                     !.key = k, !.op = op, !.target = activeVideo,
                                     !.before = rate[activeVideo],
                                     !.prevented = PreventsDefault(k),
                                     !.fault = (speedDisplay = Undefined)]
  /\ UNCHANGED <<doc, depth, paused, focus, rect, body, observer, keyListener, table,
                 closures, registrations>>

\* ------------------------------------------------------ overlay events
\* The page lays an element out anew (resize, scroll offset, collapse).
Layout(v, r) ==
  /\ DocumentContains(v)
  /\ rect[v] # r
  /\ rect' = [rect EXCEPT ![v] = r]
  /\ last' = Ev("page")
  /\ UNCHANGED <<doc, depth, rate, paused, focus, body, notes, observer, keyListener,
                 mutationPending, table, surfaces, closures, registrations>>

\* The surfaces after positionOverlay(overlay, video) ran for every overlay
\* in the set os, each against the video its listener closes over.
Reposition(os) ==
  [o \in DOMAIN surfaces |->
     IF o \in os
     THEN PositionOverlay(surfaces[o], BoundingClientRect(closures[o].video))
     ELSE surfaces[o]]

\* A window "resize" event: every registered listener runs positionOverlay
\* on its overlay.
WindowResize ==
  /\ resizeListeners # {}
  /\ surfaces' = Reposition(resizeListeners)
  /\ last' = Ev("resize")
  /\ UNCHANGED <<page, body, notes, observer, keyListener, mutationPending, table,
                 closures, registrations>>

\* A window "scroll" event: the same for the scroll listeners.
WindowScroll ==
  /\ scrollListeners # {}
  /\ surfaces' = Reposition(scrollListeners)
  /\ last' = Ev("scroll")
  /\ UNCHANGED <<page, body, notes, observer, keyListener, mutationPending, table,
                 closures, registrations>>

\* The ResizeObserver callback for video (delivered once after observe and
\* after every change of the element's size, also the collapse to nothing
\* when it leaves the document): the overlay the map holds now, if any, is
\* positioned.
SizeChange(video) ==
  /\ sizeObservers[video] > 0
  /\ surfaces' = Reposition(IF video \in DOMAIN overlays THEN {overlays[video]} ELSE {})
  /\ last' = [Ev("sizeChange") EXCEPT !.target = video]
  /\ UNCHANGED <<page, body, notes, observer, keyListener, mutationPending, table,
                 closures, registrations>>

\* showOverlay: clearTimeout(hideTimeout) cancels the timer the handle refers
\* to, if it is still pending, and no other.
ShowOverlay(c) ==
  [c EXCEPT !.timers = IF c.latest THEN @ - 1 ELSE @, !.latest = FALSE, !.hover = TRUE]

\* hideOverlay: a new timer is started and hideTimeout overwritten; a timer
\* the handle referred to before stays pending.
HideOverlay(c) ==
  [c EXCEPT !.timers = @ + 1, !.latest = TRUE, !.hover = FALSE]

\* The style after showOverlay.
Opaque(style) == [style EXCEPT !.opacity = "1"]
\* A timer callback that also takes the overlay off the screen.
FadedAway(style) == [style EXCEPT !.opacity = "0.3", !.display = "none"]
\* The style after the hide timer's callback.
Faded(style) == [style EXCEPT !.opacity = "0.3"]

\* showOverlay runs for the overlays in os.
Show(os) ==
  /\ closures' = [o \in DOMAIN closures |->
                    IF o \in os THEN ShowOverlay(closures[o]) ELSE closures[o]]
  /\ surfaces' = [o \in DOMAIN surfaces |->
                    IF o \in os THEN Opaque(surfaces[o]) ELSE surfaces[o]]

\* hideOverlay runs for the overlays in os.
Hide(os) ==
  /\ \A o \in os : closures[o].timers < MaxTimers
  /\ closures' = [o \in DOMAIN closures |->
                    IF o \in os THEN HideOverlay(closures[o]) ELSE closures[o]]
  /\ UNCHANGED surfaces

\* The overlays whose showOverlay/hideOverlay are registered on video v.
HoverTargets(v) == {o \in hoverListeners : closures[o].video = v}

\* "mouseenter" on a rooted video.
MouseEnterVideo(v) ==
  /\ DocumentContains(v)
  /\ HoverTargets(v) # {}
  /\ Show(HoverTargets(v))
  /\ last' = [Ev("mouseenter") EXCEPT !.target = v]
  /\ UNCHANGED <<page, body, notes, observer, keyListener, mutationPending, table,
                 registrations>>

\* "mouseleave" on a rooted video.
MouseLeaveVideo(v) ==
  /\ DocumentContains(v)
  /\ HoverTargets(v) # {}
  /\ Hide(HoverTargets(v))
  /\ last' = [Ev("mouseleave") EXCEPT !.target = v]
  /\ UNCHANGED <<page, body, notes, observer, keyListener, mutationPending, table,
                 registrations>>

\* "mouseenter" on an overlay in the document.
MouseEnterOverlay(o) ==
  /\ o \in body
  /\ Show({o})
  /\ last' = [Ev("mouseenter") EXCEPT !.target = closures[o].video]
  /\ UNCHANGED <<page, body, notes, observer, keyListener, mutationPending, table,
                 registrations>>

\* "mouseleave" on an overlay in the document.
MouseLeaveOverlay(o) ==
  /\ o \in body
  /\ Hide({o})
  /\ last' = [Ev("mouseleave") EXCEPT !.target = closures[o].video]
  /\ UNCHANGED <<page, body, notes, observer, keyListener, mutationPending, table,
                 registrations>>

\* The oldest pending hide timer of overlay o fires (all have the same
\* delay, so they fire in the order they were started).
HideTimeout(o) ==
  /\ o \in DOMAIN closures
  /\ closures[o].timers > 0
  /\ closures' = [closures EXCEPT ![o].timers = @ - 1,
                                  ![o].latest = (@ /\ closures[o].timers > 1)]
  /\ surfaces' = [surfaces EXCEPT ![o] = Faded(@)]
  /\ last' = [Ev("hideTimeout") EXCEPT !.target = closures[o].video]
  /\ UNCHANGED <<page, body, notes, observer, keyListener, mutationPending, table,
                 registrations>>

\* ------------------------------------------------------ specifications
\* The overlay lifecycle: the page inserts and removes videos, the
\* controller reconciles.
Next ==
  \/ Construct
  \/ MutationCallback
  \/ \E v \in Videos, d \in Depths : \E i \in 1..(Len(doc) + 1) : InsertVideo(v, i, d)
  \/ \E v \in Videos : RemoveVideo(v)

Spec == Init /\ [][Next]_vars

\* Queued mutation records are always delivered (the callback is a
\* microtask of the event loop).
FairSpec == Spec /\ WF_vars(MutationCallback)

\* The speed ladder: one rooted video whose rate the page sets to anything
\* in PageRates, and the three buttons of its overlay.
InitLadder ==
  \E d \in {s \in Documents : Len(s) = 1} :
    InitPage(d, TopLevel(d), [v \in Videos |-> ResetRate])

NextLadder ==
  \/ Construct
  \/ MutationCallback
  \/ NoteTimeout
  \/ \E v \in Range(doc), r \in PageRates : PageSetRate(v, r)
  \/ \E o \in body : ClickDecrease(o)
  \/ \E o \in body : ClickIncrease(o)
  \/ \E o \in body : ClickReset(o)

SpecLadder == InitLadder /\ [][NextLadder]_vars

\* The input channels: two rooted videos that play, pause and take the
\* focus, the buttons of their overlays and the keyboard.  Each video is
\* found at the default rate or at the highest rate of PageRates, which is
\* above the ladder.
InitInput ==
  \E d \in {s \in Documents : Range(s) = 1..2} :
    \E r \in [Videos -> {ResetRate, 25 * MaxPageRate}] :
      /\ \A v \in Videos \ Range(d) : r[v] = ResetRate
      /\ InitPage(d, TopLevel(d), r)

NextInput ==
  \/ Construct
  \/ MutationCallback
  \/ NoteTimeout
  \/ \E v \in Range(doc) : Play(v)
  \/ \E v \in Range(doc) : Pause(v)
  \/ \E v \in Range(doc) : FocusVideo(v)
  \/ Blur
  \/ \E o \in body : ClickDecrease(o)
  \/ \E o \in body : ClickIncrease(o)
  \/ \E o \in body : ClickReset(o)
  \/ \E k \in Keys : KeyDown(k)

SpecInput == InitInput /\ [][NextInput]_vars

\* The overlay lifecycle at the top level of the document with
\* removeOverlay also called by itself, for elements with and without an
\* overlay, rooted or not.
NextDetach ==
  \/ Construct
  \/ MutationCallback
  \/ \E v \in Videos : \E i \in 1..(Len(doc) + 1) : InsertVideo(v, i, 1)
  \/ \E v \in Videos : RemoveVideo(v)
  \/ \E v \in Videos : RemoveOverlayCall(v)

InitDetach ==
  \E d \in Documents : InitPage(d, TopLevel(d), [v \in Videos |-> ResetRate])

SpecDetach == InitDetach /\ [][NextDetach]_vars

\* Every handler of the controller on one video that the page plays and in
\* the end removes.
NextFrame ==
  \/ Construct
  \/ MutationCallback
  \/ \E v \in Videos : RemoveVideo(v)
  \/ \E v \in Range(doc) : Play(v)
  \/ WindowResize
  \/ WindowScroll
  \/ \E v \in Videos : SizeChange(v)
  \/ \E v \in Videos : MouseEnterVideo(v)
  \/ \E v \in Videos : MouseLeaveVideo(v)
  \/ \E o \in body : MouseEnterOverlay(o)
  \/ \E o \in body : MouseLeaveOverlay(o)
  \/ \E o \in DOMAIN closures : HideTimeout(o)
  \/ NoteTimeout
  \/ \E o \in body : ClickDecrease(o)
  \/ \E o \in body : ClickIncrease(o)
  \/ \E o \in body : ClickReset(o)
  \/ \E o \in body : ClickOutsideButtons(o)
  \/ \E k \in Keys : KeyDown(k)

SpecFrame == InitLadder /\ [][NextFrame]_vars

\* The controller's own changes to the document: one video that the page
\* removes and inserts again, reset clicks that put up notifications, and
\* the MutationObserver callback, the notification timers and the hide
\* timers started at attach.
\* What the controller does by itself once it is constructed.
Internal ==
  \/ MutationCallback
  \/ NoteTimeout
  \/ \E o \in DOMAIN closures : HideTimeout(o)

NextQuiesce ==
  \/ Construct
  \/ Internal
  \/ \E v \in {closures[o].video : o \in DOMAIN closures} : InsertVideo(v, 1, 1)
  \/ \E v \in Videos : RemoveVideo(v)
  \/ \E o \in body : ClickReset(o)

SpecQuiesce == InitLadder /\ [][NextQuiesce]_vars

\* The callback is a microtask and the timers are timers of the event loop:
\* each runs once it is due.
FairQuiesce ==
  /\ SpecQuiesce
  /\ WF_vars(MutationCallback)
  /\ WF_vars(NoteTimeout)
  /\ \A o \in 1..MaxOverlays : WF_vars(HideTimeout(o))

\* The keyboard while the table changes: one video that plays, leaves the
\* document (where it may go on playing) and comes back, and key presses at
\* any moment, also between a change of the document and the pass that
\* follows it.  The keys pressed are one that decreases, one that resets
\* and one that is not a command.
NextKeys ==
  \/ Construct
  \/ MutationCallback
  \/ NoteTimeout
  \/ \E v \in {closures[o].video : o \in DOMAIN closures} : InsertVideo(v, 1, 1)
  \/ \E v \in Videos : RemoveVideo(v)
  \/ \E v \in Videos : Play(v)
  \/ \E k \in {"-", "0", "k"} : KeyDown(k)

SpecKeys == InitLadder /\ [][NextKeys]_vars

\* Clicks anywhere on the overlay of one video, whose rate the page sets.
NextClick ==
  \/ NextLadder
  \/ \E o \in body : ClickOutsideButtons(o)

SpecClick == InitLadder /\ [][NextClick]_vars

\* The overlay's own events: one video that the page lays out anew and in
\* the end removes, window and pointer events and the hide timers.
NextOverlay ==
  \/ Construct
  \/ MutationCallback
  \/ \E v \in Videos : RemoveVideo(v)
  \/ \E v \in Range(doc), r \in Rects : Layout(v, r)
  \/ WindowResize
  \/ WindowScroll
  \/ \E v \in Videos : SizeChange(v)
  \/ \E v \in Videos : MouseEnterVideo(v)
  \/ \E v \in Videos : MouseLeaveVideo(v)
  \/ \E o \in body : MouseEnterOverlay(o)
  \/ \E o \in body : MouseLeaveOverlay(o)
  \/ \E o \in DOMAIN closures : HideTimeout(o)

SpecOverlay == InitLadder /\ [][NextOverlay]_vars

\* ------------------------------------------------- reconciliation claims
\* The state is the one a scanForVideos pass has just left.
AfterPass == last.handler \in {"constructor", "scanForVideos"}
Occurrences(list, v) == Cardinality({i \in 1..Len(list) : list[i] = v})
\* Overlays in the visual tree that were built for v.
SurfacesOf(v) == {o \in body : closures[o].video = v}
\* Nothing of the controller refers to v any more.
Released(v) == ~Includes(videos, v) /\ v \notin DOMAIN overlays /\ SurfacesOf(v) = {}

\* C1: at the end of every scanForVideos pass the tracked list holds no
\* element twice, and neither the tracked list nor the overlays map holds an
\* element that is not rooted in the document.
C1_NoDuplicateNoStale ==
  AfterPass =>
    /\ NoDup(videos)
    /\ \A i \in 1..Len(videos) : DocumentContains(videos[i])
    /\ \A v \in DOMAIN overlays : DocumentContains(v)

\* C1 witness: a pass has ended that dropped one element and kept another.
C1_Witness ==
  /\ last.handler = "scanForVideos"
  /\ videos # <<>>
  /\ \E o \in 1..Len(closures) : ~DocumentContains(closures[o].video) /\ o \notin body

\* C2: at the end of every pass every rooted video is tracked exactly once
\* and has an entry in the overlays map whose overlay is in the visual tree.
C2_EveryRootedVideoAttached ==
  AfterPass =>
    \A v \in Range(doc) :
      /\ Occurrences(videos, v) = 1
      /\ v \in DOMAIN overlays
      /\ overlays[v] \in body

\* C2 witness: after a pass, a video nested below the top level carries its
\* second overlay (it was detached and re-inserted), beside another video.
C2_Witness ==
  /\ last.handler = "scanForVideos"
  /\ Len(doc) >= 2
  /\ \E v \in Range(doc), o \in 1..Len(closures) :
       /\ depth[v] > 1
       /\ closures[o].video = v
       /\ v \in DOMAIN overlays
       /\ overlays[v] > o

\* C3: between handlers the overlays in the visual tree are as many as the
\* entries of the overlays map, and no two entries share an overlay.
C3_SurfaceCountEqualsEntries ==
  /\ Cardinality(body) = Cardinality(DOMAIN overlays)
  /\ \A v, w \in DOMAIN overlays : overlays[v] = overlays[w] => v = w

\* C3 witness: two associations exist after a pass that ran over elements
\* already associated, and an earlier overlay has been discarded.
C3_Witness ==
  /\ last.handler = "scanForVideos"
  /\ last.repeat
  /\ Cardinality(DOMAIN overlays) >= 2
  /\ Len(surfaces) > Cardinality(body)

\* C4: a scanForVideos pass that immediately follows another pass (nothing
\* happened to the document in between) creates and removes no overlay,
\* registers nothing and leaves the tracked list and the map unchanged.
C4_SecondPassIsNoOp ==
  [][(MutationCallback /\ AfterPass) =>
       UNCHANGED <<videos, overlays, body, surfaces, closures, registrations>>]_vars

\* C4 witness: a pass has run right after a pass that attached something.
C4_Witness ==
  /\ last.handler = "scanForVideos"
  /\ last.repeat
  /\ videos # <<>>
  /\ ~mutationPending

\* A tracked element that is out of the document.
Stale(v) == Includes(videos, v) /\ ~DocumentContains(v)

\* C5: while a tracked element is out of the document a mutation
\* notification is pending, and the callback that processes it releases the
\* element: no overlay of it is in the visual tree and neither the map nor
\* the tracked list refers to it.  With the notification always delivered
\* (FairSpec) the element is therefore eventually released or rooted again.
C5_RemovedElementReleased ==
  [][\A v \in Videos :
       /\ Stale(v) =>
            /\ observer /\ mutationPending
            /\ MutationCallback => Released(v)'
       /\ Stale(v)' => (observer' /\ mutationPending')]_vars

\* The same as a leads-to, which TLC checks under FairSpec.
C5_Eventually ==
  \A v \in Videos : Stale(v) ~> (DocumentContains(v) \/ Released(v))

\* C5 witness: an element that was tracked is out of the document and
\* released, its overlay out of the visual tree.
C5_Witness ==
  /\ last.handler = "scanForVideos"
  /\ \E o \in 1..Len(closures) :
       /\ ~DocumentContains(closures[o].video)
       /\ Released(closures[o].video)
       /\ o \notin body

\* ---------------------------------------------------- speed-ladder claims
LadderSet == Range(Ladder)
Greatest(S) == CHOOSE x \in S : \A y \in S : y <= x
\* The ladder value one step below c: the greatest one strictly below c, or
\* the lowest ladder value when there is none.
GreatestBelow(c) ==
  LET below == {s \in LadderSet : s < c}
  IN  IF below = {} THEN Min(LadderSet) ELSE Greatest(below)
\* The ladder value one step above c: the smallest one strictly above c, or
\* the highest ladder value when there is none.
LeastAbove(c) ==
  LET above == {s \in LadderSet : s > c}
  IN  IF above = {} THEN Greatest(LadderSet) ELSE Min(above)
\* The rate a label shows.
LabelRate(l) == l.int * 100 + l.frac

\* C6: a decrease from any rate c, inside or outside the ladder's range,
\* leaves the rate at the greatest ladder value strictly below c, or at the
\* lowest ladder value when none is below c (so a rate above the maximum is
\* clamped to the top of the ladder, never sent to the bottom).
C6_DecreaseStepsBelow ==
  last.op = "decrease" => rate[last.target] = GreatestBelow(last.before)

\* C7: an increase from any rate c leaves the rate at the smallest ladder
\* value strictly above c, or at the ladder maximum when c is at or above
\* it; and a decrease right after an increase from a ladder value below the
\* maximum returns to that value.
C7_IncreaseStepsAbove ==
  [][/\ last'.op = "increase" => rate'[last'.target] = LeastAbove(last'.before)
     /\ ( /\ last.op = "increase"
          /\ last.before \in LadderSet \ {Greatest(LadderSet)}
          /\ last'.op = "decrease"
          /\ last'.target = last.target )
        => rate'[last.target] = last.before]_vars

\* C7 witness: an increase from 1x has left 1.25x.
C7_Witness ==
  /\ last.handler = "click"
  /\ last.op = "increase"
  /\ last.before = 100
  /\ rate[last.target] = 125

\* ---------------------------------------------------- input-channel claims
\* C8: after a decrease, increase or reset from either channel on an
\* associated element, its rate is a ladder value and the label of its own
\* overlay reads that rate; increases from 1x, 1.25x and 1.5x give 1.25x,
\* 1.5x and 1.75x, and a reset gives 1x.
C8_RateOnLadderAndLabelled ==
  (last.op # "" /\ last.target \in DOMAIN overlays) =>
    LET t == last.target
        l == surfaces[overlays[t]].label
    IN  /\ rate[t] \in LadderSet
        /\ LabelRate(l) = rate[t]
        /\ l.frac \in 0..99
        /\ l.unit = "x"
        /\ (last.op = "increase" /\ last.before = 100) => rate[t] = 125
        /\ (last.op = "increase" /\ last.before = 125) => rate[t] = 150
        /\ (last.op = "increase" /\ last.before = 150) => rate[t] = 175
        /\ last.op = "reset" => rate[t] = 100

\* C8 witness: the third increase, by keyboard, has left 1.75x on the
\* element and on its label while the other element kept its own.
C8_Witness ==
  /\ last.handler = "keydown"
  /\ last.op = "increase"
  /\ last.before = 150
  /\ last.target \in DOMAIN overlays
  /\ rate[last.target] = 175
  /\ LabelRate(surfaces[overlays[last.target]].label) = 175
  /\ \E v \in DOMAIN overlays :
       v # last.target /\ LabelRate(surfaces[overlays[v]].label) = 100

Playing(v) == ~paused[v]
\* v is the first element of list that is in the set S.
FirstIn(list, S, v) ==
  \E i \in 1..Len(list) :
    /\ list[i] = v
    /\ v \in S
    /\ \A j \in 1..(i - 1) : list[j] \notin S

\* C9 as stated: the keyboard target is the first tracked element that is
\* playing, and the focused tracked element only when none is playing.
C9_PlayingBeforeFocused ==
  last.handler = "keydown" =>
    IF \E i \in 1..Len(videos) : Playing(videos[i])
    THEN FirstIn(videos, {v \in Videos : Playing(v)}, last.target)
    ELSE IF Includes(videos, focus) THEN last.target = focus
         ELSE last.target = Undefined

\* C9 amended: the keyboard target is the first tracked element, in the
\* order of the tracked list, that is playing or holds the focus; there is
\* none when no tracked element is playing or focused.
C9_FirstPlayingOrFocused ==
  last.handler = "keydown" =>
    IF \E i \in 1..Len(videos) : Playing(videos[i]) \/ focus = videos[i]
    THEN FirstIn(videos, {v \in Videos : Playing(v) \/ focus = v}, last.target)
    ELSE last.target = Undefined

\* C9 witness: a key command went to the paused, focused element that
\* precedes a playing one in the tracked list.
C9_Witness ==
  /\ last.handler = "keydown"
  /\ last.op # ""
  /\ Len(videos) = 2
  /\ last.target = videos[1]
  /\ paused[videos[1]]
  /\ focus = videos[1]
  /\ ~paused[videos[2]]

RecognizedKeys == {"-", "_", "+", "=", "0"}
HasActive == \E i \in 1..Len(videos) : Playing(videos[i]) \/ focus = videos[i]

\* C10: a key press has its default suppressed exactly when a tracked
\* element is playing or focused and the key is one of - _ + = 0; with no
\* such element the key press changes nothing.
C10_DefaultSuppressedIffHandled ==
  [][last'.handler = "keydown" =>
       /\ last'.prevented <=> (HasActive /\ last'.key \in RecognizedKeys)
       /\ ~HasActive =>
            UNCHANGED <<page, body, notes, observer, keyListener, mutationPending,
                        table, surfaces, closures, registrations>>]_vars

\* C10 witness: a recognized key was pressed with two elements tracked, none
\* of them playing or focused, and its default was left alone.
C10_Witness ==
  /\ last.handler = "keydown"
  /\ last.key = "+"
  /\ ~last.prevented
  /\ Len(videos) = 2
  /\ ~HasActive
  /\ \E v \in Videos : rate[v] # 100

\* ------------------------------------------------------- listener claims
\* Overlays that were taken out of the visual tree by removeOverlay.
Detached == {o \in 1..Len(closures) : o \notin body}

\* C11: no listener registered at attach outlives the detach: a detached
\* overlay has no window resize or scroll listener and no pointer listener
\* on its video, an element without association has no ResizeObserver, and
\* the registered resize and scroll listeners are never more than the live
\* associations.
C11_NoListenerOutlivesDetach ==
  /\ \A o \in Detached : o \notin resizeListeners \cup scrollListeners \cup hoverListeners
  /\ \A v \in Videos : v \notin DOMAIN overlays => sizeObservers[v] = 0
  /\ Cardinality(resizeListeners) <= Cardinality(DOMAIN overlays)
  /\ Cardinality(scrollListeners) <= Cardinality(DOMAIN overlays)

\* A notification that the listeners, observers and timers of overlay o
\* receive.
Notification(o) ==
  \/ SizeChange(closures[o].video)
  \/ WindowResize
  \/ WindowScroll
  \/ HideTimeout(o)
  \/ MouseEnterVideo(closures[o].video)
  \/ MouseLeaveVideo(closures[o].video)

\* C12: a notification that arrives for a detached overlay or its element
\* (size change, window resize, scroll, hide-timer expiry, pointer enter or
\* leave on the element) raises no fault and changes neither the tracked
\* list, the overlays map nor the position, visibility or opacity of the
\* detached overlay.
C12_DetachedNotificationIsNoOp ==
  [][\A o \in Detached :
       Notification(o) =>
         /\ ~last'.fault
         /\ UNCHANGED table
         /\ surfaces'[o] = surfaces[o]]_vars

\* ------------------------------------------------------ hide-timer claims
\* C13: every overlay has at most one hide timer pending at any time,
\* whatever pointer enters and leaves follow its attach: a new hide
\* supersedes the pending one.
C13_AtMostOneHideTimer ==
  \A o \in DOMAIN closures : closures[o].timers <= 1

\* C14: from a pointer enter on the video or the overlay until the next
\* pointer leave on either, the overlay is at full opacity: no hide timer
\* started before the enter fires and fades it.
C14_OpaqueWhileHovered ==
  \A o \in DOMAIN closures : closures[o].hover => surfaces[o].opacity = "1"

\* ------------------------------------------------------ positioning claim
\* The style shows the overlay inside box: hidden when the box has zero
\* width or zero height, otherwise displayed at a fixed position 10 right
\* of and 10 below the box's corner.
Placed(style, box) ==
  IF box.width = 0 \/ box.height = 0
  THEN style.display = "none"
  ELSE /\ style.display = "block"
       /\ style.position = "fixed"
       /\ style.left = box.left + 10
       /\ style.top = box.top + 10
PlacedAll(os) == \A o \in os : Placed(surfaces'[o], BoundingClientRect(closures'[o].video))

\* C15: every positionOverlay pass (at attach, on window resize, on scroll,
\* on a size change of the element) leaves the overlay hidden when the
\* video's bounding box has zero width or height and otherwise displayed at
\* (box.left + 10, box.top + 10); a second pass over the same geometry
\* changes nothing.
C15_PositioningPass ==
  [][/\ (Construct \/ MutationCallback) => PlacedAll((Len(surfaces) + 1)..Len(surfaces'))
     /\ WindowResize => PlacedAll(resizeListeners)
     /\ WindowScroll => PlacedAll(scrollListeners)
     /\ \A v \in DOMAIN overlays : SizeChange(v) => PlacedAll({overlays[v]})
     /\ (last.handler = "resize" /\ WindowScroll) => UNCHANGED surfaces
     /\ (last.handler = "scroll" /\ WindowResize) => UNCHANGED surfaces
     /\ \A o \in DOMAIN surfaces, box \in Rects :
          LET once == PositionOverlay(surfaces[o], box)
          IN  PositionOverlay(once, box) = once]_vars

\* C15 witness: a scroll pass has hidden the overlay of a rooted video whose
\* box has zero width and a height.
C15_Witness ==
  /\ last.handler = "scroll"
  /\ \E o \in body :
       LET box == BoundingClientRect(closures[o].video)
       IN  /\ box.width = 0
           /\ box.height > 0
           /\ surfaces[o].display = "none"

\* ------------------------------------------------------------ click claim
\* C16: no click on any part of an overlay (the three buttons, the speed
\* display, the overlay's own area) propagates to the document.
C16_ClickNeverPropagates ==
  last.handler = "click" => last.stopped

\* ----------------------------------------------------------- detach claim
\* C17: removeOverlay for an element without an entry in the overlays map
\* throws nothing, removes nothing from the document and leaves the map and
\* the tracked list as they were; for an element with an entry, rooted or
\* not, it removes exactly that overlay and that entry; in neither case
\* does it run a positioning pass or touch any overlay's style.
C17_DetachWithoutAssociation ==
  [][\A v \in Videos :
       RemoveOverlayCall(v) =>
         /\ ~last'.fault
         /\ UNCHANGED <<videos, surfaces, closures, registrations, page>>
         /\ IF v \in DOMAIN overlays
            THEN /\ body' = body \ {overlays[v]}
                 /\ DOMAIN overlays' = DOMAIN overlays \ {v}
                 /\ \A w \in DOMAIN overlays' : overlays'[w] = overlays[w]
            ELSE UNCHANGED <<overlays, body, mutationPending>>]_vars

\* C17 witness: removeOverlay was called for an element that never had an
\* overlay, while another element has one.
C17_Witness ==
  /\ last.handler = "removeOverlay"
  /\ \A o \in DOMAIN closures : closures[o].video # last.target
  /\ body # {}
  /\ DOMAIN overlays # {}

\* ------------------------------------------------------------ frame claim
\* C18: only scanForVideos (in the constructor and in the MutationObserver
\* callback) changes the tracked list and the overlays map: clicks, key
\* presses, positioning passes, pointer enters and leaves, hide-timer
\* expiries and notification removals leave both unchanged; and a hide
\* timer that fires changes nothing but the opacity of its overlay (and is
\* itself no longer pending).
C18_OnlyScanChangesTable ==
  [][/\ last'.handler \notin {"constructor", "scanForVideos"} => UNCHANGED table
     /\ last'.handler = "hideTimeout" =>
          /\ UNCHANGED <<page, body, notes, observer, keyListener, mutationPending,
                         registrations>>
          /\ \A o \in DOMAIN surfaces :
               surfaces'[o] = [surfaces[o] EXCEPT !.opacity = surfaces'[o].opacity]
          /\ \A o \in DOMAIN closures :
               /\ closures'[o].video = closures[o].video
               /\ closures'[o].hover = closures[o].hover
               /\ closures'[o].timers <= closures[o].timers]_vars

\* C18 witness: a hide timer has fired and faded the overlay of a tracked
\* video whose rate a key press had changed before.
C18_Witness ==
  /\ last.handler = "hideTimeout"
  /\ last.target \in DOMAIN overlays
  /\ surfaces[overlays[last.target]].opacity = "0.3"
  /\ rate[last.target] # ResetRate
  /\ ~paused[last.target]

\* ------------------------------------------------------ quiescence claim
RECURSIVE PendingTimers(_)
\* The hide timers pending for the first n overlays.
PendingTimers(n) == IF n = 0 THEN 0 ELSE closures[n].timers + PendingTimers(n - 1)
\* Rooted videos without an overlay yet, and tracked elements out of the
\* document.
ToAttach == {v \in Range(doc) : ~Includes(videos, v)}
ToDetach == {v \in Range(videos) : ~DocumentContains(v)}
\* No notification and no timer is pending.
Quiescent ==
  /\ ~mutationPending
  /\ notes = 0
  /\ \A o \in DOMAIN closures : closures[o].timers = 0
\* What is left to do: each own step lowers it.
Variant ==
  (IF mutationPending THEN 1 ELSE 0) + 2 * notes + PendingTimers(Len(closures))
    + 3 * Cardinality(ToAttach) + Cardinality(ToDetach)

\* C19: the controller's own changes to the document queue a mutation
\* record (an overlay inserted or removed by a pass, a notification
\* inserted by a command or removed by its timer); a pass over a document
\* whose videos match the tracked list changes nothing; and every step the
\* controller takes by itself (callback, notification timer, hide timer)
\* lowers a bounded measure that is zero exactly in the quiescent states,
\* while some such step is enabled in every other state.  So once the page
\* and the user are silent, finitely many own steps lead to a state with no
\* notification, no timer and no notification element left.
C19_OwnStepsTerminate ==
  [][/\ (MutationCallback /\ body' # body) => mutationPending'
     /\ (observer /\ notes' # notes) => mutationPending'
     /\ (MutationCallback /\ ToAttach = {} /\ ToDetach = {}) =>
          UNCHANGED <<table, body, surfaces, closures, registrations>>
     /\ Internal => Variant' < Variant
     /\ observer => (Variant = 0 <=> Quiescent)
     /\ (observer /\ ~Quiescent) => ENABLED Internal]_vars

\* The same as a leads-to under FairQuiesce: whenever the page and the user
\* stay silent from some point on, the controller is quiescent from some
\* point on.
C19_Eventually ==
  <>[][Internal]_vars => <>[](observer => Quiescent)

\* C19 witness: the controller is quiescent after a pass, with an overlay
\* discarded, another attached and its hide timer expired.
C19_Witness ==
  /\ observer
  /\ Quiescent
  /\ last.handler = "scanForVideos"
  /\ Detached # {}
  /\ videos # <<>>
  /\ \E o \in body : surfaces[o].opacity = "0.3"

\* ------------------------------------------------------- keyboard claim 2
\* C20: between handlers the elements of the tracked list are exactly the
\* keys of the overlays map; so the element the keydown listener picks from
\* the list has an overlay with a speed display: a keyboard command throws
\* nothing, changes the rate of an element of the map only, and that
\* overlay's label follows.
C20_TrackedEqualsAssociated ==
  [][/\ Range(videos) = DOMAIN overlays
     /\ Range(videos') = DOMAIN overlays'
     /\ last'.handler = "keydown" =>
          /\ ~last'.fault
          /\ last'.target # Undefined => last'.target \in DOMAIN overlays
          /\ \A v \in Videos : rate'[v] # rate[v] =>
               /\ v = last'.target
               /\ v \in DOMAIN overlays
               /\ LabelRate(surfaces'[overlays[v]].label) = rate'[v]]_vars

\* C20 witness: a key press has slowed down an element that plays outside
\* the document and is still tracked, before the pass that drops it.
C20_Witness ==
  /\ last.handler = "keydown"
  /\ last.op = "decrease"
  /\ ~DocumentContains(last.target)
  /\ Includes(videos, last.target)
  /\ rate[last.target] < last.before
  /\ mutationPending

====
